---- MODULE Spec2Model ----
(***************************************************************************)
(* RankForge: the match-ingestion pipeline of services/match_service.py    *)
(* (process_new_match and its helpers) together with the two rating        *)
(* engines it dispatches to (rating/glicko2_engine.py, dummy_engine.py).   *)
(*                                                                         *)
(* Storage is the committed tables players / profiles / matches.  Every    *)
(* database session t owns the writes it has flushed but not committed     *)
(* (pend[t]); a session reads the committed tables overlaid with its own   *)
(* pending writes.  commit() installs the pending writes, rollback()       *)
(* discards them.                                                          *)
(*                                                                         *)
(* In the tables rating values are kept symbolic: a rating state is either *)
(* the default triple or the term  rate(subject, opponents)  that records  *)
(* which rating states the computation read.  The arithmetic of            *)
(* Glicko2Engine.rate is modelled apart, in fixed point, and RatingValue   *)
(* evaluates a term with it.                                               *)
(***************************************************************************)
EXTENDS Integers, Sequences, FiniteSets, TLC

\* ---------------------------------------------------------------- bounds
MaxParticipants == 2   \* longest participant list of a submitted payload
MaxMatches == 2        \* submissions are accepted while fewer matches are stored
MaxValidated == 4      \* longest participant list handed to the validator alone
MaxScored == 3         \* most participant rows of a match handed to the glicko2 engine alone
MaxRank == 4           \* highest rank of those rows
MaxIterations == 40    \* most steps of one call of rate evaluated as a function

\* ------------------------------------------------------------- constants
NoPlayer == 0          \* player_id = None
UNKNOWN_PLAYER_NAME == "Unknown"
DEFAULT_RATING_INFO == [rating |-> 1500, rd |-> 350, vol |-> 6]  \* vol in 1/100
EmptyStats == [k \in {} |-> 0]                                   \* stats = {}
NullJson == [null |-> TRUE]                                      \* a NULL JSON column

Sessions == {1, 2}

\* The games table (game CRUD is outside the pipeline): one glicko2 game and
\* one game with another strategy.  Game id 3 does not exist.
Games == {[id |-> 1, rating_strategy |-> "glicko2"],
          [id |-> 2, rating_strategy |-> "dummy"]}
GameIdInputs == {1, 2, 3}

\* Players 1 and 2 exist from the start; id 3 is free until the Unknown
\* player is created and then names the Unknown player.
InitialPlayers == {[id |-> 1, name |-> "P1", is_anonymous |-> FALSE],
                   [id |-> 2, name |-> "P2", is_anonymous |-> FALSE]}
PlayerIdInputs == {NoPlayer, 1, 2, 3}
TeamIdInputs == {1, 2}

\* An outcome is the JSON object of BinaryOutcome / RankedOutcome: each of the
\* keys "result" and "rank" is present (a one-element sequence) or absent.
Outcome(result, rank) == [result |-> result, rank |-> rank]
\* In the submitted payloads teammates share their result: team 1 wins, team 2
\* loses.
OutcomeOfTeam(team_id) ==
    IF team_id = 1 THEN Outcome(<<"win">>, << >>) ELSE Outcome(<<"loss">>, << >>)

ParticipantInputs ==
    {[player_id |-> player_id, team_id |-> team_id, outcome |-> OutcomeOfTeam(team_id)] :
        player_id \in PlayerIdInputs, team_id \in TeamIdInputs}

SeqsUpTo(S, n) == UNION {[1..k -> S] : k \in 0..n}

\* MatchCreate payloads
Payloads ==
    [game_id : GameIdInputs, participants : SeqsUpTo(ParticipantInputs, MaxParticipants)]

\* ----------------------------------------------------------------- state
VARIABLES
    players,    \* committed rows of table players
    profiles,   \* committed rows of table game_profiles
    matches,    \* committed rows of table matches, each with its participants
    pc,         \* pc[t]: the statement of process_new_match session t is at
    match_in,   \* match_in[t]: the payload of the call (player ids resolved in place)
    pend,       \* pend[t]: writes of session t flushed but not committed
    result,     \* result[t]: how the last call of session t ended
    new_match,  \* new_match[t]: the id of new_match once flushed (0 before step 6)
    before,     \* before[t]: the committed tables and the payload when the call
                \* of t began (history)
    scores,     \* scores[t]: player_scores as the glicko2 engine computed them
    response,   \* response[t]: the HTTP response of create_match
    rate_pc,    \* the statement a call of Glicko2Engine.rate is at
    rating_in,  \* the arguments of that call: player_rating and the opponents
    sigma_iter, \* the locals of _compute_new_sigma in that call
    visited,    \* the values sigma_iter had when a pass of the second loop began
                \* (history)
    rating_out  \* what the call returned

rateVars == <<rate_pc, rating_in, sigma_iter, visited, rating_out>>

vars == <<players, profiles, matches, pc, match_in, pend, result, new_match, before,
         scores, response, rate_pc, rating_in, sigma_iter, visited, rating_out>>

\* ------------------------------------------------------------ small helpers
Max(S) == CHOOSE x \in S : \A y \in S : y <= x
\* A variant of min: the largest element.
Largest(S) == CHOOSE x \in S : \A y \in S : y <= x
Min(S) == CHOOSE x \in S : \A y \in S : x <= y
Range(f) == {f[i] : i \in DOMAIN f}

NoPending == [players |-> {}, profiles |-> {}, match |-> << >>]
Result(kind, n, ids) == [kind |-> kind, n |-> n, ids |-> ids]
NoResult == Result("none", 0, {})

\* the unique constraint _player_game_uc, and the primary key
SameKey(a, b) == a.player_id = b.player_id /\ a.game_id = b.game_id
SameRow(a, b) == a.id = b.id

\* rows that overlay replaces are dropped, the overlay is added
Overlay(base, over) == {p \in base : ~ \E w \in over : SameRow(p, w)} \cup over

\* What session t reads: committed rows overlaid with its own flushed writes.
ViewPlayers(t) == players \cup pend[t].players
ViewProfiles(t) == Overlay(profiles, pend[t].profiles)

\* db.get(models.Game, id)
GameLookup(game_id) == {g \in Games : g.id = game_id}

\* select(Player).where(Player.name == UNKNOWN_PLAYER_NAME), scalar_one_or_none
UnknownLookup(plrs) == {p \in plrs : p.name = UNKNOWN_PLAYER_NAME}
UnknownId(plrs) ==
    IF UnknownLookup(plrs) = {} THEN NoPlayer
    ELSE (CHOOSE p \in UnknownLookup(plrs) : TRUE).id

\* A variant of the select: the game is left out of the where clause.
FindProfileAnyGame(profs, player_id, game_id) ==
    {p \in profs : p.player_id = player_id}

\* GameProfile.find_by_player_and_game / the select of get_or_create_game_profile
FindProfile(profs, player_id, game_id) ==
    {p \in profs : p.player_id = player_id /\ p.game_id = game_id}
TheProfile(profs, player_id, game_id) ==
    CHOOSE p \in FindProfile(profs, player_id, game_id) : TRUE


\* ------------------------------------------------------- _validate_participants
\* The ids the seen/duplicates loop collects, as set(duplicates): an id other
\* than None and the Unknown player's that an earlier entry already carried.
DuplicateIdsNoExemption(player_ids, unknown_player_id) ==
    {player_ids[j] : j \in {k \in DOMAIN player_ids :
        /\ player_ids[k] # NoPlayer
        /\ \E i \in 1..(k - 1) : player_ids[i] = player_ids[k]}}

DuplicateIdsFirstOnly(player_ids, unknown_player_id) ==
    LET hits == {k \in DOMAIN player_ids :
                    /\ player_ids[k] # NoPlayer
                    /\ player_ids[k] # unknown_player_id
                    /\ \E i \in 1..(k - 1) : player_ids[i] = player_ids[k]}
    IN  IF hits = {} THEN {} ELSE {player_ids[Min(hits)]}

DuplicateIds(player_ids, unknown_player_id) ==
    {player_ids[j] : j \in {k \in DOMAIN player_ids :
        /\ player_ids[k] # NoPlayer
        /\ player_ids[k] # unknown_player_id
        /\ \E i \in 1..(k - 1) : player_ids[i] = player_ids[k]}}

\* A variant of the order of the rules: team structure before duplicates.
ValidateParticipantsTeamsFirst(participants, unknown_player_id, existing_ids) ==
    LET player_ids == [i \in DOMAIN participants |-> participants[i].player_id]
        duplicates == DuplicateIds(player_ids, unknown_player_id)
        team_ids == {participants[i].team_id : i \in DOMAIN participants}
        non_null_ids == {pid \in Range(player_ids) : pid # NoPlayer}
        missing_ids == non_null_ids \ existing_ids
    IN  IF Len(participants) < 2
        THEN Result("InsufficientParticipants", Len(participants), {})
        ELSE IF Cardinality(team_ids) < 2
        THEN Result("InsufficientTeams", Cardinality(team_ids), {})
        ELSE IF duplicates # {}
        THEN Result("DuplicatePlayer", 0, duplicates)
        ELSE IF missing_ids # {}
        THEN Result("PlayerNotFound", 0, {Min(missing_ids)})
        ELSE Result("passed", 0, {})

\* The error _validate_participants raises ("passed": it returns normally).
ValidateParticipants(participants, unknown_player_id, existing_ids) ==
    LET player_ids == [i \in DOMAIN participants |-> participants[i].player_id]
        duplicates == DuplicateIds(player_ids, unknown_player_id)
        team_ids == {participants[i].team_id : i \in DOMAIN participants}
        non_null_ids == {pid \in Range(player_ids) : pid # NoPlayer}
        missing_ids == non_null_ids \ existing_ids
    IN  IF Len(participants) < 2
        THEN Result("InsufficientParticipants", Len(participants), {})
        ELSE IF duplicates # {}
        THEN Result("DuplicatePlayer", 0, duplicates)
        ELSE IF Cardinality(team_ids) < 2
        THEN Result("InsufficientTeams", Cardinality(team_ids), {})
        ELSE IF missing_ids # {}
        THEN Result("PlayerNotFound", 0, {Min(missing_ids)})
        ELSE Result("passed", 0, {})

\* ------------------------------------------------------ _calculate_player_scores
RECURSIVE GCD(_, _)
GCD(a, b) == IF b = 0 THEN a ELSE GCD(b, a % b)
Abs(n) == IF n < 0 THEN 0 - n ELSE n
\* the float n / d (d > 0) as a fraction in lowest terms
Frac(n, d) == LET g == GCD(Abs(n), d) IN <<n \div g, d \div g>>

\* dict semantics: a later row of the same key overwrites an earlier one
LastRow(rows, player_id) == Max({i \in DOMAIN rows : rows[i].player_id = player_id})
LastRowOfTeam(rows, team_id) == Max({i \in DOMAIN rows : rows[i].team_id = team_id})

\* A variant of the ranked rule: the score is clamped to [0, 1].
CalculatePlayerScoresClamped(rows) ==
    LET has_win_loss ==
            \E i \in DOMAIN rows : rows[i].outcome.result \in {<<"win">>, <<"loss">>}
        team_ids == {rows[i].team_id : i \in DOMAIN rows}
        num_opponents == Cardinality(team_ids) - 1
        team_rank(team_id) == rows[LastRowOfTeam(rows, team_id)].outcome.rank
        BinaryScore(p) ==
            IF p.outcome.result = <<"win">> THEN <<1, 1>>
            ELSE IF p.outcome.result = <<"loss">> THEN <<0, 1>>
            ELSE <<1, 2>>
        RankedScore(p) ==
            LET rank == team_rank(p.team_id)
            IN  IF rank # << >>
                THEN IF num_opponents - (rank[1] - 1) < 0 THEN <<0, 1>>
                     ELSE Frac(num_opponents - (rank[1] - 1), num_opponents)
                ELSE <<1, 2>>
    IN  [pid \in {rows[i].player_id : i \in DOMAIN rows} |->
            LET p == rows[LastRow(rows, pid)]
            IN  IF has_win_loss THEN BinaryScore(p)
                ELSE IF num_opponents <= 0 THEN <<1, 2>>
                ELSE RankedScore(p)]

CalculatePlayerScores(rows) ==
    LET has_win_loss ==
            \E i \in DOMAIN rows : rows[i].outcome.result \in {<<"win">>, <<"loss">>}
        team_ids == {rows[i].team_id : i \in DOMAIN rows}
        num_opponents == Cardinality(team_ids) - 1
        team_rank(team_id) == rows[LastRowOfTeam(rows, team_id)].outcome.rank
        BinaryScore(p) ==
            IF p.outcome.result = <<"win">> THEN <<1, 1>>
            ELSE IF p.outcome.result = <<"loss">> THEN <<0, 1>>
            ELSE <<1, 2>>
        RankedScore(p) ==
            LET rank == team_rank(p.team_id)
            IN  IF rank # << >>
                THEN Frac(num_opponents - (rank[1] - 1), num_opponents)
                ELSE <<1, 2>>
    IN  [pid \in {rows[i].player_id : i \in DOMAIN rows} |->
            LET p == rows[LastRow(rows, pid)]
            IN  IF has_win_loss THEN BinaryScore(p)
                ELSE IF num_opponents <= 0 THEN <<1, 2>>
                ELSE RankedScore(p)]

\* ------------------------------------------------------------ Glicko2Engine.rate
\* The new Glicko2Rating, symbolic: the subject's rating state and the list of
\* (opponent rating state, score) pairs the computation reads.
Rate(player_rating, opponent_ratings_and_outcomes) ==
    [rate_of |-> player_rating, vs |-> opponent_ratings_and_outcomes]

\* new_rating_info: mu and phi rounded to 2 decimals, sigma to 6
RoundedRatingInfo(updated_rating) == [rounded |-> updated_rating]

\* rating_change: new_rating_info minus old_rating_info, field by field
RatingChange(new_rating_info, old_rating_info) ==
    [minuend |-> new_rating_info, subtrahend |-> old_rating_info]


\* -------------------------------------------- glicko2_engine.update_ratings_for_match
\* (opponent rating, score) for every row of another team, in row order
\* A variant of loop 2: every other row is an opponent, teammates included.
OpponentsDataAllOthers(rows, i, rating_of, p1_score) ==
    LET js == SelectSeq([j \in DOMAIN rows |-> j], LAMBDA j : j # i)
    IN  [k \in DOMAIN js |-> [opp |-> rating_of[rows[js[k]].player_id], score |-> p1_score]]

OpponentsData(rows, i, rating_of, p1_score) ==
    LET js == SelectSeq([j \in DOMAIN rows |-> j],
                        LAMBDA j : rows[j].team_id # rows[i].team_id)
    IN  [k \in DOMAIN js |-> [opp |-> rating_of[rows[js[k]].player_id], score |-> p1_score]]

\* loop 3 of the engine (persist): row by row, the profile object takes the new
\* rating_info and the row the difference to what the profile held just before
RECURSIVE GlickoPersist(_, _, _, _, _)
GlickoPersist(profs, rows, game_id, new_ratings, i) ==
    IF i > Len(rows) THEN [profiles |-> profs, participants |-> rows]
    ELSE LET profile_to_update == TheProfile(profs, rows[i].player_id, game_id)
             old_rating_info == profile_to_update.rating_info
             new_rating_info == RoundedRatingInfo(new_ratings[rows[i].player_id])
             rating_change == RatingChange(new_rating_info, old_rating_info)
         IN  GlickoPersist(
                 Overlay(profs, {[profile_to_update EXCEPT !.rating_info = new_rating_info]}),
                 [rows EXCEPT ![i].rating_info_change = rating_change],
                 game_id, new_ratings, i + 1)

\* A variant of the engine's structure: one loop that computes a row's new
\* rating from the profiles as they are now and writes it at once.
RECURSIVE GlickoInPlace(_, _, _, _, _)
GlickoInPlace(profs, rows, game_id, player_scores, i) ==
    IF i > Len(rows) THEN [raised |-> FALSE, profiles |-> profs, participants |-> rows]
    ELSE LET pids == {rows[j].player_id : j \in DOMAIN rows}
             rating_now == [pid \in pids |-> TheProfile(profs, pid, game_id).rating_info]
             profile_to_update == TheProfile(profs, rows[i].player_id, game_id)
             old_rating_info == profile_to_update.rating_info
             new_rating_info == RoundedRatingInfo(
                 Rate(old_rating_info,
                      OpponentsData(rows, i, rating_now, player_scores[rows[i].player_id])))
         IN  GlickoInPlace(
                 Overlay(profs, {[profile_to_update EXCEPT !.rating_info = new_rating_info]}),
                 [rows EXCEPT ![i].rating_info_change =
                                  RatingChange(new_rating_info, old_rating_info)],
                 game_id, player_scores, i + 1)

Glicko2UpdateInPlace(profs, match) ==
    GlickoInPlace(profs, match.participants, match.game_id,
                  CalculatePlayerScores(match.participants), 1)

\* What the engine does to the profiles the session sees and to the rows of
\* the match.  raised: a participant without profile is skipped by loop 1 and
\* then missing from player_ratings in loop 2 (KeyError).
Glicko2Update(profs, match) ==
    LET rows == match.participants
        pids == {rows[i].player_id : i \in DOMAIN rows}
        fetched == {pid \in pids : FindProfile(profs, pid, match.game_id) # {}}
        player_ratings ==
            [pid \in fetched |-> TheProfile(profs, pid, match.game_id).rating_info]
        player_scores == CalculatePlayerScores(rows)
        new_ratings ==
            [pid \in pids |->
                LET i == LastRow(rows, pid)
                IN  Rate(player_ratings[pid],
                         OpponentsData(rows, i, player_ratings, player_scores[pid]))]
    IN  IF fetched # pids
        THEN [raised |-> TRUE, profiles |-> profs, participants |-> rows]
        ELSE [raised |-> FALSE] @@ GlickoPersist(profs, rows, match.game_id, new_ratings, 1)

\* ---------------------------------------------- dummy_engine.update_ratings_for_match
\* A variant of the copy: new_stats starts empty, not as a copy of the bag.
IncrementMatchesPlayedOnly(stats) ==
    LET current_matches_played ==
            IF "matches_played" \in DOMAIN stats THEN stats["matches_played"] ELSE 0
    IN  [k \in {"matches_played"} |-> current_matches_played + 1]

IncrementMatchesPlayed(stats) ==
    LET current_matches_played ==
            IF "matches_played" \in DOMAIN stats THEN stats["matches_played"] ELSE 0
    IN  [k \in DOMAIN stats \cup {"matches_played"} |->
            IF k = "matches_played" THEN current_matches_played + 1 ELSE stats[k]]

RECURSIVE DummyLoop(_, _, _, _)
DummyLoop(profs, rows, game_id, i) ==
    IF i > Len(rows) THEN profs
    ELSE LET profile == TheProfile(profs, rows[i].player_id, game_id)
         IN  DummyLoop(
                 Overlay(profs, {[profile EXCEPT !.stats = IncrementMatchesPlayed(@)]}),
                 rows, game_id, i + 1)

\* raised: scalar_one() finds no profile (NoResultFound)
DummyUpdate(profs, match) ==
    LET rows == match.participants
    IN  IF \E i \in DOMAIN rows : FindProfile(profs, rows[i].player_id, match.game_id) = {}
        THEN [raised |-> TRUE, profiles |-> profs, participants |-> rows]
        ELSE [raised |-> FALSE,
              profiles |-> DummyLoop(profs, rows, match.game_id, 1),
              participants |-> rows]

\* The engine's last statement: glicko2_engine ends with db.commit(),
\* dummy_engine with db.flush().
EngineCommits(rating_strategy) == rating_strategy = "glicko2"

\* A variant of the dispatcher: every strategy runs the dummy engine.
EngineUpdateDummyOnly(rating_strategy, profs, match) == DummyUpdate(profs, match)

\* the dispatcher of process_new_match
EngineUpdate(rating_strategy, profs, match) ==
    IF rating_strategy = "glicko2" THEN Glicko2Update(profs, match)
    ELSE DummyUpdate(profs, match)

\* ------------------------------------------------ get_or_create_game_profile, step 5
\* A variant of the create: the profile is filed under another game.
NewProfileOtherGame(id, player_id, game_id) ==
    [id |-> id, player_id |-> player_id, game_id |-> game_id + 1,
     rating_info |-> DEFAULT_RATING_INFO, stats |-> EmptyStats]

NewProfile(id, player_id, game_id) ==
    [id |-> id, player_id |-> player_id, game_id |-> game_id,
     rating_info |-> DEFAULT_RATING_INFO, stats |-> EmptyStats]

\* the next free primary key of game_profiles, over the rows the session sees
\* and the rows other sessions have flushed
AllPendingProfiles == UNION {pend[s].profiles : s \in Sessions}
NextProfileId(profs) == 1 + Max({0} \cup {p.id : p \in profs \cup AllPendingProfiles})

\* Variants: an existing profile is handed back reset to the defaults; the
\* select is skipped and a profile is inserted on every call.
GetOrCreateGameProfileReset(profs, player_id, game_id) ==
    IF FindProfile(profs, player_id, game_id) = {}
    THEN NewProfile(NextProfileId(profs), player_id, game_id)
    ELSE [TheProfile(profs, player_id, game_id) EXCEPT
             !.rating_info = DEFAULT_RATING_INFO, !.stats = EmptyStats]

GetOrCreateGameProfileAlwaysCreate(profs, player_id, game_id) ==
    NewProfile(NextProfileId(profs), player_id, game_id)

GetOrCreateGameProfile(profs, player_id, game_id) ==
    IF FindProfile(profs, player_id, game_id) = {}
    THEN NewProfile(NextProfileId(profs), player_id, game_id)
    ELSE TheProfile(profs, player_id, game_id)

\* The loop of step 5: the profiles afterwards and the MatchParticipant rows.
\* submitted is the participant list as the caller sent it: was_null records
\* (history) that the row came in with player_id = None.
RECURSIVE PersistLoop(_, _, _, _, _)
PersistLoop(profs, participants, submitted, game_id, i) ==
    IF i > Len(participants) THEN [profiles |-> profs, participants |-> << >>]
    ELSE LET profile == GetOrCreateGameProfile(profs, participants[i].player_id, game_id)
             new_participant ==
                 [player_id |-> participants[i].player_id,
                  team_id |-> participants[i].team_id,
                  outcome |-> participants[i].outcome,
                  rating_info_before |-> profile.rating_info,
                  rating_info_change |-> NullJson,
                  was_null |-> submitted[i].player_id = NoPlayer]
             rest == PersistLoop(profs \cup {profile}, participants, submitted, game_id, i + 1)
         IN  [profiles |-> rest.profiles,
              participants |-> <<new_participant>> \o rest.participants]

\* _resolve_unknown_players: every None becomes the Unknown player's id
ResolveUnknownPlayers(participants, unknown_player_id) ==
    [i \in DOMAIN participants |->
        IF participants[i].player_id = NoPlayer
        THEN [participants[i] EXCEPT !.player_id = unknown_player_id]
        ELSE participants[i]]


\* ------------------------------------------------------------- the transaction
Db == [players |-> players, profiles |-> profiles, matches |-> matches]

\* db.commit(): the session's pending writes become the committed rows
DbAfterCommit(db, p) ==
    [players  |-> db.players \cup p.players,
     profiles |-> Overlay(db.profiles, p.profiles),
     matches  |-> {m \in db.matches : \A i \in DOMAIN p.match : p.match[i].id # m.id}
                  \cup Range(p.match)]

\* db.rollback(): the pending writes are discarded.  The two variants let the
\* flushed profiles, or the flushed players, through (a commit in the place
\* of a flush).
DbAfterRollbackKeepProfiles(db, p) == [db EXCEPT !.profiles = Overlay(@, p.profiles)]
DbAfterRollbackKeepPlayers(db, p) == [db EXCEPT !.players = @ \cup p.players]
DbAfterRollback(db, p) == db

\* The order of the statements of process_new_match's try block.
NextStageGameAfterValidation(stage) ==
    CASE stage = "received"   -> "resolve"
      [] stage = "resolve"    -> "validate"
      [] stage = "validate"   -> "get_game"
      [] stage = "get_game"   -> "persist"
      [] stage = "persist"    -> "dispatch"
      [] stage = "dispatch"   -> "engine_end"
      [] stage = "engine_end" -> "commit"

NextStagePersistBeforeValidation(stage) ==
    CASE stage = "received"   -> "get_game"
      [] stage = "get_game"   -> "resolve"
      [] stage = "resolve"    -> "persist"
      [] stage = "persist"    -> "validate"
      [] stage = "validate"   -> "dispatch"
      [] stage = "dispatch"   -> "engine_end"
      [] stage = "engine_end" -> "commit"

NextStage(stage) ==
    CASE stage = "received"   -> "get_game"
      [] stage = "get_game"   -> "resolve"
      [] stage = "resolve"    -> "validate"
      [] stage = "validate"   -> "persist"
      [] stage = "persist"    -> "dispatch"
      [] stage = "dispatch"   -> "engine_end"
      [] stage = "engine_end" -> "commit"

\* the next free primary key of a table, over committed and flushed rows
AllPendingPlayers == UNION {pend[s].players : s \in Sessions}
AllPendingMatches == UNION {Range(pend[s].match) : s \in Sessions}
NextPlayerId == 1 + Max({0} \cup {p.id : p \in players \cup AllPendingPlayers})
NextMatchId == 1 + Max({0} \cup {m.id : m \in matches \cup AllPendingMatches})

\* A profile another session has inserted and not yet committed: an insert of
\* the same (player, game) waits for that session (unique constraint).
InsertedElsewhere(t, player_id, game_id) ==
    \E s \in Sessions \ {t} :
        /\ FindProfile(pend[s].profiles, player_id, game_id) # {}
        /\ FindProfile(profiles, player_id, game_id) = {}

NoCall == [game_id |-> 1, participants |-> << >>]
NoHistory == [players |-> {}, profiles |-> {}, matches |-> {}, participants |-> << >>]

\* The call of session t begins.
Begin(t, payload) ==
    /\ pc[t] = "idle"
    /\ pc' = [pc EXCEPT ![t] = NextStage("received")]
    /\ match_in' = [match_in EXCEPT ![t] = payload]
    /\ before' = [before EXCEPT ![t] = Db @@ [participants |-> payload.participants]]
    /\ UNCHANGED <<players, profiles, matches, pend, result, new_match, scores, response>>

\* except Exception: rollback, re-raise.  res is the error the caller gets.
Fail(t, res) ==
    LET db == DbAfterRollback(Db, pend[t])
    IN  /\ players' = db.players
        /\ profiles' = db.profiles
        /\ matches' = db.matches
        /\ pend' = [pend EXCEPT ![t] = NoPending]
        /\ pc' = [pc EXCEPT ![t] = "done"]
        /\ result' = [result EXCEPT ![t] = res]
        /\ UNCHANGED <<match_in, new_match, before, scores, response>>

Goto(t, stage) == pc' = [pc EXCEPT ![t] = stage]

\* ----------------------------------------------------- process_new_match, by step
\* POST /matches with any payload
Submit(t) ==
    /\ Cardinality(matches) < MaxMatches
    /\ UNCHANGED rateVars
    /\ \E payload \in Payloads : Begin(t, payload)

\* step 1: fetch the game
GetGame(t) ==
    /\ pc[t] = "get_game"
    /\ UNCHANGED rateVars
    /\ IF GameLookup(match_in[t].game_id) = {}
       THEN Fail(t, Result("GameNotFound", match_in[t].game_id, {}))
       ELSE /\ Goto(t, NextStage("get_game"))
            /\ UNCHANGED <<players, profiles, matches, match_in, pend, result,
                           new_match, before, scores, response>>

\* step 2, _resolve_unknown_players up to the select of _get_or_create_unknown_player
Resolve(t) ==
    /\ pc[t] = "resolve"
    /\ UNCHANGED rateVars
    /\ LET participants == match_in[t].participants
           needs_unknown == \E i \in DOMAIN participants : participants[i].player_id = NoPlayer
           unknown_player_id == UnknownId(ViewPlayers(t))
       IN  IF ~ needs_unknown
           THEN /\ Goto(t, NextStage("resolve"))
                /\ UNCHANGED match_in
           ELSE IF unknown_player_id = NoPlayer
           THEN /\ Goto(t, "insert_unknown")
                /\ UNCHANGED match_in
           ELSE /\ Goto(t, NextStage("resolve"))
                /\ match_in' = [match_in EXCEPT ![t].participants =
                                   ResolveUnknownPlayers(participants, unknown_player_id)]
    /\ UNCHANGED <<players, profiles, matches, pend, result, new_match, before, scores, response>>

\* step 2, the insert of _get_or_create_unknown_player (db.add, db.flush) and the
\* assignment loop.  The insert waits while another session holds an uncommitted
\* row of that name, and violates the unique constraint on players.name when a
\* row of that name has been committed since the select.
InsertUnknown(t) ==
    /\ pc[t] = "insert_unknown"
    /\ UNCHANGED rateVars
    /\ \A s \in Sessions \ {t} : UnknownLookup(pend[s].players) = {}
    /\ IF UnknownLookup(players) # {}
       THEN Fail(t, Result("IntegrityError", 0, {}))
       ELSE LET unknown_player == [id |-> NextPlayerId, name |-> UNKNOWN_PLAYER_NAME,
                                   is_anonymous |-> TRUE]
            IN  /\ pend' = [pend EXCEPT ![t].players = @ \cup {unknown_player}]
                /\ match_in' = [match_in EXCEPT ![t].participants =
                                   ResolveUnknownPlayers(@, unknown_player.id)]
                /\ Goto(t, NextStage("resolve"))
                /\ UNCHANGED <<players, profiles, matches, result, new_match, before, scores, response>>

\* steps 3 and 4: the Unknown player's id, then _validate_participants
Validate(t) ==
    /\ pc[t] = "validate"
    /\ UNCHANGED rateVars
    /\ LET unknown_player_id == UnknownId(ViewPlayers(t))
           res == ValidateParticipants(match_in[t].participants, unknown_player_id,
                                       {p.id : p \in ViewPlayers(t)})
       IN  IF res.kind # "passed"
           THEN Fail(t, res)
           ELSE /\ Goto(t, NextStage("validate"))
                /\ UNCHANGED <<players, profiles, matches, match_in, pend, result,
                               new_match, before, scores, response>>

\* steps 5 and 6: profiles, participant rows, db.add(new_match), db.flush()
Persist(t) ==
    /\ pc[t] = "persist"
    /\ UNCHANGED rateVars
    /\ LET participants == match_in[t].participants
           game_id == match_in[t].game_id
       IN  /\ \A i \in DOMAIN participants :
                 ~ InsertedElsewhere(t, participants[i].player_id, game_id)
           /\ IF \E i \in DOMAIN participants : participants[i].player_id = NoPlayer
              THEN Fail(t, Result("AssertionError", 0, {}))
              ELSE LET done == PersistLoop(ViewProfiles(t), participants,
                                           before[t].participants, game_id, 1)
                       match == [id |-> NextMatchId, game_id |-> game_id,
                                 participants |-> done.participants]
                   IN  /\ pend' = [pend EXCEPT ![t].profiles = done.profiles \ profiles,
                                               ![t].match = <<match>>]
                       /\ new_match' = [new_match EXCEPT ![t] = match.id]
                       /\ Goto(t, NextStage("persist"))
                       /\ UNCHANGED <<players, profiles, matches, match_in, result, before, scores, response>>

\* step 7: the engine of the game's rating_strategy, up to its last statement
EngineApply(t) ==
    /\ pc[t] = "dispatch"
    /\ UNCHANGED rateVars
    /\ LET match == pend[t].match[1]
           game == CHOOSE g \in GameLookup(match.game_id) : TRUE
           upd == EngineUpdate(game.rating_strategy, ViewProfiles(t), match)
       IN  IF upd.raised
           THEN Fail(t, Result("LookupError", 0, {}))
           ELSE /\ pend' = [pend EXCEPT
                       ![t].profiles = upd.profiles \ profiles,
                       ![t].match = <<[match EXCEPT !.participants = upd.participants]>>]
                /\ scores' = [scores EXCEPT ![t] =
                       IF game.rating_strategy = "glicko2"
                       THEN CalculatePlayerScores(match.participants) ELSE << >>]
                /\ Goto(t, NextStage("dispatch"))
                /\ UNCHANGED <<players, profiles, matches, match_in, result,
                               new_match, before, response>>

\* step 7: the engine's last statement, a commit or a flush
EngineEnd(t) ==
    /\ pc[t] = "engine_end"
    /\ UNCHANGED rateVars
    /\ LET game == CHOOSE g \in GameLookup(match_in[t].game_id) : TRUE
           db == IF EngineCommits(game.rating_strategy)
                 THEN DbAfterCommit(Db, pend[t]) ELSE Db
       IN  /\ players' = db.players
           /\ profiles' = db.profiles
           /\ matches' = db.matches
           /\ pend' = [pend EXCEPT ![t] =
                          IF EngineCommits(game.rating_strategy) THEN NoPending ELSE @]
    /\ Goto(t, NextStage("engine_end"))
    /\ UNCHANGED <<match_in, result, new_match, before, scores, response>>

\* step 7: the engine raises before its last statement (the tests patch the
\* engine with a RatingCalculationError; the arithmetic of rate can divide by 0)
EngineRaise(t) ==
    /\ pc[t] \in {"dispatch", "engine_end"}
    /\ UNCHANGED rateVars
    /\ Fail(t, Result("RatingEngineError", 0, {}))

\* step 8: db.commit(); step 9 returns the match
Commit(t) ==
    /\ pc[t] = "commit"
    /\ UNCHANGED rateVars
    /\ LET db == DbAfterCommit(Db, pend[t])
       IN  /\ players' = db.players
           /\ profiles' = db.profiles
           /\ matches' = db.matches
    /\ pend' = [pend EXCEPT ![t] = NoPending]
    /\ pc' = [pc EXCEPT ![t] = "done"]
    /\ result' = [result EXCEPT ![t] = Result("ok", new_match[t], {})]
    /\ UNCHANGED <<match_in, new_match, before, scores, response>>

\* ------------------------------------------------------- api/match.py create_match
\* e.message: the text of a RankForgeError, fixed by its class and the id, the
\* count or the ids it was raised with
Message(res) == [text |-> res.kind, n |-> res.n, ids |-> res.ids]
FixedDetail(text) == [text |-> text, n |-> 0, ids |-> {}]
GenericEngineDetail == FixedDetail("Rating calculation failed. Please try again.")

HttpResponse(status, detail) == [status |-> status, detail |-> detail]
NoResponse == HttpResponse(0, FixedDetail(""))

ResourceNotFoundErrors == {"GameNotFound", "PlayerNotFound"}
ValidationErrors == {"InsufficientParticipants", "DuplicatePlayer", "InsufficientTeams"}
RatingEngineErrors == {"RatingEngineError"}

\* A variant of the except clauses: the engine error's own message is passed on.
CreateMatchResponseLeaky(res) ==
    IF res.kind = "ok" THEN HttpResponse(201, Message(res))
    ELSE IF res.kind \in ResourceNotFoundErrors THEN HttpResponse(404, Message(res))
    ELSE IF res.kind \in ValidationErrors THEN HttpResponse(422, Message(res))
    ELSE HttpResponse(500, Message(res))

\* The response of create_match to the outcome of process_new_match.  Errors
\* the endpoint does not catch reach the handlers of main.py.
CreateMatchResponse(res) ==
    IF res.kind = "ok" THEN HttpResponse(201, Message(res))
    ELSE IF res.kind \in ResourceNotFoundErrors THEN HttpResponse(404, Message(res))
    ELSE IF res.kind \in ValidationErrors THEN HttpResponse(422, Message(res))
    ELSE IF res.kind \in RatingEngineErrors THEN HttpResponse(500, GenericEngineDetail)
    ELSE IF res.kind = "IntegrityError"
    THEN HttpResponse(409, FixedDetail("Resource already exists with given unique field(s)"))
    ELSE HttpResponse(500, FixedDetail("An internal server error occurred"))

Respond(t) ==
    /\ pc[t] = "done"
    /\ UNCHANGED rateVars
    /\ pc' = [pc EXCEPT ![t] = "responded"]
    /\ response' = [response EXCEPT ![t] = CreateMatchResponse(result[t])]
    /\ UNCHANGED <<players, profiles, matches, match_in, pend, result, new_match,
                   before, scores>>

\* The caller has the response; the session is free for the next request (the
\* locals and the history of the finished call are dropped).
Return(t) ==
    /\ pc[t] = "responded"
    /\ UNCHANGED rateVars
    /\ pc' = [pc EXCEPT ![t] = "idle"]
    /\ match_in' = [match_in EXCEPT ![t] = NoCall]
    /\ result' = [result EXCEPT ![t] = NoResult]
    /\ new_match' = [new_match EXCEPT ![t] = 0]
    /\ before' = [before EXCEPT ![t] = NoHistory]
    /\ scores' = [scores EXCEPT ![t] = << >>]
    /\ response' = [response EXCEPT ![t] = NoResponse]
    /\ UNCHANGED <<players, profiles, matches, pend>>

Step(t) ==
    \/ GetGame(t) \/ Resolve(t) \/ InsertUnknown(t) \/ Validate(t) \/ Persist(t)
    \/ EngineApply(t) \/ EngineEnd(t) \/ EngineRaise(t) \/ Commit(t)

\* ------------------------------------------------- Glicko2Engine, in numbers
\* The engine computes in floating point.  Here a number x is the integer
\* nearest to x * Unit (four decimals), every operation rounds its exact result
\* to that grid, and every intermediate value stays within 32 bits.
Unit == 10 ^ 4
Sgn(x) == IF x > 0 THEN 1 ELSE IF x < 0 THEN 0 - 1 ELSE 0

\* x * y
Mul(x, y) ==
    LET a == Abs(x)
        b == Abs(y)
    IN  Sgn(x) * Sgn(y) * ((a \div Unit) * b + (a % Unit) * (b \div Unit)
                           + ((a % Unit) * (b % Unit) + Unit \div 2) \div Unit)

\* the n decimals after the point of r / b, for 0 <= r < b, the last one rounded
RECURSIVE DivDigits(_, _, _)
DivDigits(r, b, n) ==
    IF n = 0
    THEN IF 2 * r >= b THEN 1 ELSE 0
    ELSE ((r * 10) \div b) * 10 ^ (n - 1) + DivDigits((r * 10) % b, b, n - 1)

\* x / y, for y # 0
Div(x, y) ==
    LET a == Abs(x)
        b == Abs(y)
    IN  Sgn(x) * Sgn(y) * ((a \div b) * Unit + DivDigits(a % b, b, 4))

\* the largest r in lo..hi with r * r <= n
RECURSIVE ISqrtBetween(_, _, _)
ISqrtBetween(n, lo, hi) ==
    IF lo = hi
    THEN lo
    ELSE LET mid == (lo + hi + 1) \div 2
         IN  IF mid * mid <= n THEN ISqrtBetween(n, mid, hi)
                               ELSE ISqrtBetween(n, lo, mid - 1)

ISqrt(n) == ISqrtBetween(n, 0, 46340)

\* math.sqrt(x), for x >= 0
Sqrt(x) ==
    IF x <= 200000 THEN ISqrt(x * Unit)
    ELSE IF x <= 20000000 THEN ISqrt(x * 100) * 10
    ELSE ISqrt(x) * 100

\* math.sqrt(x**2 + y**2), the squares kept exact
SqrtOfSquares(x, y) == ISqrt(x * x + y * y)

\* the terms i..8 of the series of exp(r), t being term i - 1
RECURSIVE ExpTerms(_, _, _)
ExpTerms(r, t, i) ==
    IF i > 8
    THEN 0
    ELSE LET term == (Mul(t, r) + i \div 2) \div i
         IN  term + ExpTerms(r, term, i + 1)

RECURSIVE TimesE(_, _)
TimesE(x, n) == IF n = 0 THEN x ELSE TimesE(Mul(x, 27183), n - 1)

\* math.exp(x), for x >= 0: e to the integer part times the series of the rest
ExpPos(x) == TimesE(Unit + ExpTerms(x % Unit, Unit, 1), x \div Unit)

\* math.exp(x)
Exp(x) == IF x >= 0 THEN ExpPos(x) ELSE Div(Unit, ExpPos(0 - x))

\* the largest x in lo..hi with exp(x) <= y
RECURSIVE LnBetween(_, _, _)
LnBetween(y, lo, hi) ==
    IF lo = hi
    THEN lo
    ELSE LET mid == lo + (hi - lo + 1) \div 2
         IN  IF ExpPos(mid) <= y THEN LnBetween(y, mid, hi)
                                 ELSE LnBetween(y, lo, mid - 1)

\* math.log(y), for y > 0
Ln(y) == IF y >= Unit THEN LnBetween(y, 0, 12 * Unit)
                      ELSE 0 - LnBetween(Div(Unit, y), 0, 12 * Unit)

\* self._tau = 0.5 and self._glicko_scale_constant = 173.7178
Tau == Unit \div 2
GlickoScaleConstant == 1737178
\* epsilon = 0.000001, which the grid cannot tell from one of its steps
Epsilon == Max({1, Unit \div 1000000})

Glicko2Rating(mu, phi, sigma) == [mu |-> mu, phi |-> phi, sigma |-> sigma]

\* steps 1 and 2: to the Glicko-2 scale
ScaledMu(rating) == Div(rating.mu - 1500 * Unit, GlickoScaleConstant)
ScaledPhi(rating) == Div(rating.phi, GlickoScaleConstant)

\* _g: 1 / sqrt(1 + 3 phi^2 / pi^2)
G(phi) == Div(Unit, Sqrt(Unit + Div(3 * Mul(phi, phi), Mul(31416, 31416))))

\* _E: 1 / (1 + exp(-g(phi_j) (mu - mu_j)))
E(mu, mu_j, phi_j) == Div(Unit, Unit + Exp(0 - Mul(G(phi_j), mu - mu_j)))

\* the sum of _compute_v over the opponents i, i + 1, ...
RECURSIVE VInv(_, _, _)
VInv(mu, opponent_ratings, i) ==
    IF i > Len(opponent_ratings)
    THEN 0
    ELSE LET mu_j == ScaledMu(opponent_ratings[i].opp)
             phi_j == ScaledPhi(opponent_ratings[i].opp)
             g_phi_j == G(phi_j)
             e == E(mu, mu_j, phi_j)
         IN  Mul(Mul(Mul(g_phi_j, g_phi_j), e), Unit - e)
                + VInv(mu, opponent_ratings, i + 1)

ComputeV(mu, opponent_ratings) ==
    LET v_inv == VInv(mu, opponent_ratings, 1)
    IN  IF v_inv # 0 THEN Div(Unit, v_inv) ELSE 0

\* A variant of _sum_g_phi_j: the expected outcome minus the score.
RECURSIVE SumGPhiJInverted(_, _, _)
SumGPhiJInverted(mu, opponent_ratings, i) ==
    IF i > Len(opponent_ratings)
    THEN 0
    ELSE LET mu_j == ScaledMu(opponent_ratings[i].opp)
             phi_j == ScaledPhi(opponent_ratings[i].opp)
         IN  Mul(G(phi_j), E(mu, mu_j, phi_j) - opponent_ratings[i].score)
                + SumGPhiJInverted(mu, opponent_ratings, i + 1)

\* _sum_g_phi_j over the opponents i, i + 1, ...
RECURSIVE SumGPhiJ(_, _, _)
SumGPhiJ(mu, opponent_ratings, i) ==
    IF i > Len(opponent_ratings)
    THEN 0
    ELSE LET mu_j == ScaledMu(opponent_ratings[i].opp)
             phi_j == ScaledPhi(opponent_ratings[i].opp)
         IN  Mul(G(phi_j), opponent_ratings[i].score - E(mu, mu_j, phi_j))
                + SumGPhiJ(mu, opponent_ratings, i + 1)

ComputeDelta(mu, v, opponent_ratings) == Mul(v, SumGPhiJ(mu, opponent_ratings, 1))

\* The locals of _compute_new_sigma: a, delta_sq, phi_sq and v are set once, k
\* counts the steps below a, and A, B, f_A, f_B are the bracket.
NoIteration ==
    [a |-> 0, delta_sq |-> 0, phi_sq |-> 0, v |-> 0, k |-> 0,
     A |-> 0, B |-> 0, f_A |-> 0, f_B |-> 0]

\* f(x) of _compute_new_sigma
F(x, s) ==
    LET ex == Exp(x)
        sum == s.phi_sq + s.v + ex
    IN  Div(Mul(ex, s.delta_sq - s.phi_sq - s.v - ex), 2 * Mul(sum, sum))
           - Div(x - s.a, Mul(Tau, Tau))

\* f_A = f(A), f_B = f(B) once B is chosen
WithBracket(s, B) == [s EXCEPT !.B = B, !.f_A = F(s.A, s), !.f_B = F(B, s)]

\* _compute_new_sigma up to the choice of B: either B = log(delta_sq - phi_sq - v)
\* and the iteration begins, or the search below a begins with k = 1
SigmaEnter(delta, phi, v, sigma) ==
    LET a == Ln(Mul(sigma, sigma))
        s == [a |-> a, delta_sq |-> Mul(delta, delta), phi_sq |-> Mul(phi, phi),
              v |-> v, k |-> 1, A |-> a, B |-> 0, f_A |-> 0, f_B |-> 0]
    IN  IF s.delta_sq > s.phi_sq + s.v
        THEN [pc |-> "illinois", iter |-> WithBracket(s, Ln(s.delta_sq - s.phi_sq - s.v))]
        ELSE [pc |-> "bracket", iter |-> s]

\* while f(a - k * self._tau) < 0: k += 1; then B = a - k * self._tau
BracketStep(s) ==
    IF F(s.a - s.k * Tau, s) < 0
    THEN [pc |-> "bracket", iter |-> [s EXCEPT !.k = @ + 1]]
    ELSE [pc |-> "illinois", iter |-> WithBracket(s, s.a - s.k * Tau)]

\* while abs(B - A) > epsilon: one pass of the body.  The division by
\* f_B - f_A raises ZeroDivisionError when both are equal.
IllinoisStep(s) ==
    IF Abs(s.B - s.A) > Epsilon
    THEN IF s.f_B - s.f_A = 0
         THEN [pc |-> "raised", iter |-> s]
         ELSE LET C == s.A + Div(Mul(s.A - s.B, s.f_A), s.f_B - s.f_A)
                  f_C == F(C, s)
              IN  IF Sgn(f_C) * Sgn(s.f_B) < 0
                  THEN [pc |-> "illinois",
                        iter |-> [s EXCEPT !.A = s.B, !.f_A = s.f_B, !.B = C, !.f_B = f_C]]
                  ELSE [pc |-> "illinois",
                        iter |-> [s EXCEPT !.f_A = Div(s.f_A, 2 * Unit), !.B = C, !.f_B = f_C]]
    ELSE [pc |-> "converged", iter |-> s]

NoRating == Glicko2Rating(0, 0, 0)

\* A variant of the branch for a player without opponents: the rating is
\* converted to the Glicko-2 scale and back, and the deviation is kept.
RateNoOpponentsRescaled(player_rating) ==
    Glicko2Rating(Mul(ScaledMu(player_rating), GlickoScaleConstant) + 1500 * Unit,
                  Mul(ScaledPhi(player_rating), GlickoScaleConstant),
                  player_rating.sigma)

\* rate, if not opponent_ratings_and_outcomes: only the deviation changes
RateNoOpponents(player_rating) ==
    Glicko2Rating(player_rating.mu,
                  Mul(SqrtOfSquares(ScaledPhi(player_rating), player_rating.sigma),
                      GlickoScaleConstant),
                  player_rating.sigma)

\* rate up to the loops of _compute_new_sigma (steps 1 to 5)
RateEnter(player_rating, opponent_ratings) ==
    LET mu == ScaledMu(player_rating)
        phi == ScaledPhi(player_rating)
        v == ComputeV(mu, opponent_ratings)
        delta == ComputeDelta(mu, v, opponent_ratings)
    IN  IF opponent_ratings = << >>
        THEN [pc |-> "returned", iter |-> NoIteration, out |-> RateNoOpponents(player_rating)]
        ELSE SigmaEnter(delta, phi, v, player_rating.sigma) @@ [out |-> NoRating]

\* return math.exp(A / 2)
SigmaResult(s) == Exp(Div(s.A, 2 * Unit))

\* rate after _compute_new_sigma (steps 6 to 8); 1 / v raises ZeroDivisionError
\* for v = 0
RateFinish(player_rating, opponent_ratings, s) ==
    LET mu == ScaledMu(player_rating)
        phi == ScaledPhi(player_rating)
        sigma_prime == SigmaResult(s)
        phi_star == SqrtOfSquares(phi, sigma_prime)
        phi_prime == Div(Unit, Sqrt(Div(Unit, Mul(phi_star, phi_star)) + Div(Unit, s.v)))
        mu_prime == mu + Mul(Mul(phi_prime, phi_prime), SumGPhiJ(mu, opponent_ratings, 1))
    IN  IF s.v = 0 \/ phi_star = 0
        THEN [pc |-> "raised", out |-> NoRating]
        ELSE [pc |-> "returned",
              out |-> Glicko2Rating(Mul(mu_prime, GlickoScaleConstant) + 1500 * Unit,
                                    Mul(phi_prime, GlickoScaleConstant),
                                    sigma_prime)]

\* ------------------------------------------------------ a call of rate, by step
matchVars == <<players, profiles, matches, pc, match_in, pend, result, new_match,
               before, scores, response>>

NoRateCall == [player_rating |-> NoRating, opponents |-> << >>]

RateNotCalled ==
    /\ rate_pc = "idle"
    /\ rating_in = NoRateCall
    /\ sigma_iter = NoIteration
    /\ visited = {}
    /\ rating_out = NoRating

\* rate(player_rating, opponent_ratings_and_outcomes) up to the first loop
RateCall ==
    /\ rate_pc = "called"
    /\ LET entered == RateEnter(rating_in.player_rating, rating_in.opponents)
       IN  /\ rate_pc' = entered.pc
           /\ sigma_iter' = entered.iter
           /\ rating_out' = entered.out
    /\ UNCHANGED <<rating_in, visited, matchVars>>

\* the test of the first while loop of _compute_new_sigma, and its body or exit
BracketSearch ==
    /\ rate_pc = "bracket"
    /\ LET stepped == BracketStep(sigma_iter)
       IN  /\ rate_pc' = stepped.pc
           /\ sigma_iter' = stepped.iter
    /\ UNCHANGED <<rating_in, visited, rating_out, matchVars>>

\* the test of the second while loop of _compute_new_sigma, and its body or exit
Illinois ==
    /\ rate_pc = "illinois"
    /\ LET stepped == IllinoisStep(sigma_iter)
       IN  /\ rate_pc' = stepped.pc
           /\ sigma_iter' = stepped.iter
    /\ visited' = visited \cup {sigma_iter}
    /\ UNCHANGED <<rating_in, rating_out, matchVars>>

\* _compute_new_sigma returns, rate finishes
RateReturn ==
    /\ rate_pc = "converged"
    /\ LET finished == RateFinish(rating_in.player_rating, rating_in.opponents, sigma_iter)
       IN  /\ rate_pc' = finished.pc
           /\ rating_out' = finished.out
    /\ UNCHANGED <<rating_in, sigma_iter, visited, matchVars>>

\* _compute_new_sigma(delta, phi, v, sigma) called by itself, up to the first loop
SigmaCall ==
    /\ rate_pc = "sigma_called"
    /\ LET entered == SigmaEnter(rating_in.delta, rating_in.phi, rating_in.v, rating_in.sigma)
       IN  /\ rate_pc' = entered.pc
           /\ sigma_iter' = entered.iter
    /\ UNCHANGED <<rating_in, visited, rating_out, matchVars>>

\* ... and its return, the new volatility
SigmaReturn ==
    /\ rate_pc = "converged"
    /\ rate_pc' = "returned"
    /\ rating_out' = [NoRating EXCEPT !.sigma = SigmaResult(sigma_iter)]
    /\ UNCHANGED <<rating_in, sigma_iter, visited, matchVars>>

\* rate as a function: the steps above, one after the other, at most
\* MaxIterations of them
RECURSIVE RateRun(_, _, _, _)
RateRun(player_rating, opponent_ratings, st, fuel) ==
    IF st.pc \in {"returned", "raised"} \/ fuel = 0
    THEN st
    ELSE IF st.pc = "bracket"
    THEN RateRun(player_rating, opponent_ratings, BracketStep(st.iter) @@ st, fuel - 1)
    ELSE IF st.pc = "illinois"
    THEN RateRun(player_rating, opponent_ratings, IllinoisStep(st.iter) @@ st, fuel - 1)
    ELSE RateRun(player_rating, opponent_ratings,
                 RateFinish(player_rating, opponent_ratings, st.iter) @@ st, fuel - 1)

RateValue(player_rating, opponent_ratings) ==
    RateRun(player_rating, opponent_ratings,
            RateEnter(player_rating, opponent_ratings), MaxIterations)

\* round(x, ndigits)
Round(x, ndigits) ==
    IF ndigits >= 4
    THEN x
    ELSE LET step == 10 ^ (4 - ndigits)
         IN  Sgn(x) * ((Abs(x) + step \div 2) \div step) * step

\* The numbers behind a rating_info of the tables: the default, or what
\* update_ratings_for_match stored (rate, then round).  A score n / d is n / d.
RECURSIVE RatingValue(_)
RatingValue(rating_info) ==
    IF rating_info = DEFAULT_RATING_INFO
    THEN Glicko2Rating(DEFAULT_RATING_INFO.rating * Unit, DEFAULT_RATING_INFO.rd * Unit,
                       (DEFAULT_RATING_INFO.vol * Unit) \div 100)
    ELSE IF "rounded" \in DOMAIN rating_info
    THEN LET updated_rating == RatingValue(rating_info.rounded)
         IN  Glicko2Rating(Round(updated_rating.mu, 2), Round(updated_rating.phi, 2),
                           Round(updated_rating.sigma, 6))
    ELSE LET opponents ==
                 [k \in DOMAIN rating_info.vs |->
                     [opp |-> RatingValue(rating_info.vs[k].opp),
                      score |-> Div(rating_info.vs[k].score[1] * Unit,
                                    rating_info.vs[k].score[2] * Unit)]]
         IN  RateValue(RatingValue(rating_info.rate_of), opponents).out

\* ------------------------------------------------------------ specifications
\* No call of process_new_match is under way and the tables are as at start.
InitPipeline ==
    /\ players = InitialPlayers
    /\ profiles = {}
    /\ matches = {}
    /\ pc = [t \in Sessions |-> "idle"]
    /\ match_in = [t \in Sessions |-> NoCall]
    /\ pend = [t \in Sessions |-> NoPending]
    /\ result = [t \in Sessions |-> NoResult]
    /\ new_match = [t \in Sessions |-> 0]
    /\ before = [t \in Sessions |-> NoHistory]
    /\ scores = [t \in Sessions |-> << >>]
    /\ response = [t \in Sessions |-> NoResponse]

Init == InitPipeline /\ RateNotCalled

\* One session, one call after the other.
Next == Submit(1) \/ Step(1) \/ Respond(1) \/ Return(1)
Spec == Init /\ [][Next]_vars


\* The validator alone: session 1 stands before step 4 with any resolved
\* participant list (ids 1 and 2 exist, 4 does not, 3 is the Unknown player
\* when that player exists and a missing id when not).
ValidatedInputs ==
    {[player_id |-> player_id, team_id |-> team_id, outcome |-> OutcomeOfTeam(team_id)] :
        player_id \in {1, 2, 3, 4}, team_id \in TeamIdInputs}

UnknownPlayerRow == [id |-> 3, name |-> UNKNOWN_PLAYER_NAME, is_anonymous |-> TRUE]

InitValidate ==
    /\ players \in {InitialPlayers, InitialPlayers \cup {UnknownPlayerRow}}
    /\ profiles = {}
    /\ matches = {}
    /\ pc = [t \in Sessions |-> IF t = 1 THEN "validate" ELSE "idle"]
    /\ \E participants \in SeqsUpTo(ValidatedInputs, MaxValidated) :
          /\ match_in = [t \in Sessions |->
                IF t = 1 THEN [game_id |-> 1, participants |-> participants] ELSE NoCall]
          /\ before = [t \in Sessions |->
                IF t = 1 THEN Db @@ [participants |-> participants] ELSE NoHistory]
    /\ pend = [t \in Sessions |-> NoPending]
    /\ result = [t \in Sessions |-> NoResult]
    /\ new_match = [t \in Sessions |-> 0]
    /\ scores = [t \in Sessions |-> << >>]
    /\ response = [t \in Sessions |-> NoResponse]
    /\ RateNotCalled

NextValidate == Validate(1)
SpecValidate == InitValidate /\ [][NextValidate]_vars

\* The glicko2 engine alone: session 1 stands at step 7 with a flushed match of
\* game 1 whose rows (row i is player i's) carry any team and any outcome dict:
\* a result only, a rank only, both, or neither.
ScoredOutcomes ==
    {Outcome(<<r>>, << >>) : r \in {"win", "loss", "draw", "invalid"}}
    \cup {Outcome(<< >>, <<k>>) : k \in 1..MaxRank}
    \cup {Outcome(<<"draw">>, <<1>>), Outcome(<<"draw">>, <<2>>), Outcome(<<"loss">>, <<2>>),
          Outcome(<< >>, << >>)}

ScoredInputs == [team_id : {1, 2, 3}, outcome : ScoredOutcomes]

InitScores ==
    /\ players = InitialPlayers \cup {UnknownPlayerRow}
    /\ profiles = {}
    /\ matches = {}
    /\ pc = [t \in Sessions |-> IF t = 1 THEN "dispatch" ELSE "idle"]
    /\ \E inputs \in SeqsUpTo(ScoredInputs, MaxScored) :
          LET participants ==
                  [i \in DOMAIN inputs |->
                      [player_id |-> i, team_id |-> inputs[i].team_id,
                       outcome |-> inputs[i].outcome]]
              \* what steps 5 and 6 flush for players without profile
              flushed ==
                  [profiles |-> {NewProfile(i, i, 1) : i \in DOMAIN inputs},
                   participants |->
                      [i \in DOMAIN inputs |->
                          [player_id |-> i, team_id |-> inputs[i].team_id,
                           outcome |-> inputs[i].outcome,
                           rating_info_before |-> DEFAULT_RATING_INFO,
                           rating_info_change |-> NullJson,
                           was_null |-> FALSE]]]
          IN  /\ match_in = [t \in Sessions |->
                    IF t = 1 THEN [game_id |-> 1, participants |-> participants] ELSE NoCall]
              /\ before = [t \in Sessions |->
                    IF t = 1 THEN Db @@ [participants |-> participants] ELSE NoHistory]
              /\ pend = [t \in Sessions |->
                    IF t = 1
                    THEN [players |-> {}, profiles |-> flushed.profiles,
                          match |-> <<[id |-> 1, game_id |-> 1,
                                       participants |-> flushed.participants]>>]
                    ELSE NoPending]
    /\ result = [t \in Sessions |-> NoResult]
    /\ new_match = [t \in Sessions |-> IF t = 1 THEN 1 ELSE 0]
    /\ scores = [t \in Sessions |-> << >>]
    /\ response = [t \in Sessions |-> NoResponse]
    /\ RateNotCalled

NextScores == EngineApply(1)
SpecScores == InitScores /\ [][NextScores]_vars

\* Two sessions, each with one submission that names an existing game and has
\* an anonymous participant; their statements interleave.
AnonymousPayloads ==
    {m \in Payloads :
        /\ GameLookup(m.game_id) # {}
        /\ \E i \in DOMAIN m.participants : m.participants[i].player_id = NoPlayer}

SubmitAnonymous(t) ==
    /\ result[t] = NoResult
    /\ UNCHANGED rateVars
    /\ \E payload \in AnonymousPayloads : Begin(t, payload)

NextConc == \E t \in Sessions : SubmitAnonymous(t) \/ Step(t)
SpecConc == Init /\ [][NextConc]_vars

\* The rating engine alone: one call of rate with a player and with no or one
\* opponent, each a rating the tables can hold, and a score of 0, 0.5 or 1.
RatingInputs ==
    {Glicko2Rating(mu * Unit, phi * Unit, sigma) :
        mu \in {1400, 1500, 1600}, phi \in {100, 350}, sigma \in {300, 600}}

OpponentInputs ==
    {<< >>} \cup {<<[opp |-> opp, score |-> score]>> :
                     opp \in {r \in RatingInputs : r.sigma = 600},
                     score \in {0, Unit \div 2, Unit}}

InitRate ==
    /\ InitPipeline
    /\ rate_pc = "called"
    /\ rating_in \in [player_rating : RatingInputs, opponents : OpponentInputs]
    /\ sigma_iter = NoIteration
    /\ visited = {}
    /\ rating_out = NoRating

NextRate == RateCall \/ BracketSearch \/ Illinois \/ RateReturn
SpecRate == InitRate /\ [][NextRate]_vars

\* The volatility iteration alone: one call of _compute_new_sigma with positive
\* phi, v and sigma, among them those of a first match of two new players
\* (delta 2.9892, phi 2.0147, v 8.9354, sigma 0.06).
SigmaInputs ==
    [delta : {3102, 29892, 80178}, phi : {6685, 13750, 20147},
     v : {11306, 48260, 89354}, sigma : {600, 6263, 9739}]

InitSigma ==
    /\ InitPipeline
    /\ rate_pc = "sigma_called"
    /\ rating_in \in SigmaInputs
    /\ sigma_iter = NoIteration
    /\ visited = {}
    /\ rating_out = NoRating

NextSigma == SigmaCall \/ BracketSearch \/ Illinois \/ SigmaReturn
SpecSigma == InitSigma /\ [][NextSigma]_vars

\* ===================================================================== claims
Done(t) == pc[t] = "done"
Submitted(t) == before[t].participants
GameExists(t) == GameLookup(match_in[t].game_id) # {}
StoredMatch(id) == CHOOSE m \in matches : m.id = id

\* C1: when the rating engine raises after the match, its participants and the
\* missing profiles have been flushed, the call ends in a rollback: storage
\* holds the matches (with their participants) and the profiles it held before
\* the call, nothing of the call is left pending, and the caller gets the error.
C1_EngineFailureRollsBack ==
    \A t \in Sessions :
        (Done(t) /\ result[t].kind = "RatingEngineError") =>
            /\ matches = before[t].matches
            /\ profiles = before[t].profiles
            /\ pend[t] = NoPending

\* the engine raised in a call that had created a profile for a participant
C1_Witness ==
    \E t \in Sessions :
        /\ Done(t) /\ result[t].kind = "RatingEngineError"
        /\ \E i \in DOMAIN match_in[t].participants :
              FindProfile(profiles, match_in[t].participants[i].player_id,
                          match_in[t].game_id) = {}

\* C2: during a call the committed tables change only in the orchestrator's
\* final commit (step 8); no engine commits.
C2_OnlyOrchestratorCommits ==
    [][(players' # players \/ profiles' # profiles \/ matches' # matches) =>
          \E t \in Sessions : pc[t] = "commit" /\ pc'[t] = "done"]_vars

\* C3: when the call fails with InsufficientParticipants, DuplicatePlayer,
\* InsufficientTeams, PlayerNotFound or GameNotFound, the transaction had
\* written no profile and no match when the error was raised, and storage holds
\* the matches and profiles it held before the call.
CallerErrors ==
    {"InsufficientParticipants", "DuplicatePlayer", "InsufficientTeams",
     "PlayerNotFound", "GameNotFound"}

C3_NoWritesOnValidationFailure ==
    [][\A t \in Sessions :
          (~ Done(t) /\ pc'[t] = "done" /\ result'[t].kind \in CallerErrors) =>
              /\ pend[t].profiles = {}
              /\ pend[t].match = << >>
              /\ matches' = before[t].matches
              /\ profiles' = before[t].profiles]_vars

\* PlayerNotFound for a submission that also names an existing player who has
\* no profile for the game
C3_Witness ==
    \E t \in Sessions :
        /\ Done(t) /\ result[t].kind = "PlayerNotFound"
        /\ \E i \in DOMAIN Submitted(t) :
              /\ Submitted(t)[i].player_id \in {p.id : p \in players}
              /\ FindProfile(profiles, Submitted(t)[i].player_id, match_in[t].game_id) = {}

Handed == match_in[1].participants
ExemptId == UnknownId(ViewPlayers(1))
TooFew == Len(Handed) < 2
RepeatedIds ==
    {Handed[i].player_id : i \in
        {i \in DOMAIN Handed :
            /\ Handed[i].player_id # ExemptId
            /\ \E j \in DOMAIN Handed : j # i /\ Handed[j].player_id = Handed[i].player_id}}
OneTeam == \A i, j \in DOMAIN Handed : Handed[i].team_id = Handed[j].team_id
MissingIds ==
    {Handed[i].player_id : i \in DOMAIN Handed} \ {p.id : p \in ViewPlayers(1)}

FirstFailingCheck ==
    IF TooFew THEN "InsufficientParticipants"
    ELSE IF RepeatedIds # {} THEN "DuplicatePlayer"
    ELSE IF OneTeam THEN "InsufficientTeams"
    ELSE IF MissingIds # {} THEN "PlayerNotFound"
    ELSE "passed"

C7_DuplicateIffRepeated ==
    (Done(1) /\ Len(Handed) >= 2) =>
        /\ result[1].kind = "DuplicatePlayer" <=> RepeatedIds # {}
        /\ result[1].kind = "DuplicatePlayer" => result[1].ids = RepeatedIds

\* two different ids are each repeated
C7_Witness ==
    /\ Done(1) /\ result[1].kind = "DuplicatePlayer"
    /\ Cardinality(result[1].ids) = 2

\* C6: a submission for an existing game whose null participants span at least
\* 2 teams (its other ids distinct and existing) never fails validation; unless
\* the engine raises it is committed, and every participant submitted with a
\* null id references the one Unknown player.
AnonymousRows(participants) ==
    {i \in DOMAIN participants : participants[i].player_id = NoPlayer}

NamedIdsValid(t) ==
    \A i \in DOMAIN Submitted(t) \ AnonymousRows(Submitted(t)) :
        /\ Submitted(t)[i].player_id \in {p.id : p \in before[t].players}
        /\ \A j \in DOMAIN Submitted(t) :
              j # i => Submitted(t)[j].player_id # Submitted(t)[i].player_id

AnonymousTeams(t) == {Submitted(t)[i].team_id : i \in AnonymousRows(Submitted(t))}

NullRows == {<<m, i>> \in matches \X (1..MaxParticipants + 1) :
                i \in DOMAIN m.participants /\ m.participants[i].was_null}

C9_RaceLoserRefetches ==
    /\ \A t \in Sessions : result[t].kind # "IntegrityError"
    /\ (\A t \in Sessions : Done(t) /\ result[t].kind = "ok") =>
          Cardinality(UnknownLookup(players)) = 1

\* C10: after a committed glicko2 match every participant's stored rating was
\* computed from that player's rating before the match and, as opponents, from
\* the ratings the players of the other teams had before the match.
PreMatchRating(t, player_id) ==
    IF FindProfile(before[t].profiles, player_id, match_in[t].game_id) = {}
    THEN DEFAULT_RATING_INFO
    ELSE TheProfile(before[t].profiles, player_id, match_in[t].game_id).rating_info

OtherTeamRows(rows, i) ==
    SelectSeq([j \in DOMAIN rows |-> j], LAMBDA j : rows[j].team_id # rows[i].team_id)

C10_ReadsPrecedeWrites ==
    \A t \in Sessions :
        (/\ Done(t) /\ result[t].kind = "ok"
         /\ \E g \in GameLookup(match_in[t].game_id) : g.rating_strategy = "glicko2") =>
            LET rows == StoredMatch(result[t].n).participants
            IN \A player_id \in {rows[i].player_id : i \in DOMAIN rows} :
                  LET new == TheProfile(profiles, player_id, match_in[t].game_id).rating_info.rounded
                  IN /\ new.rate_of = PreMatchRating(t, player_id)
                     /\ \E i \in DOMAIN rows :
                           /\ rows[i].player_id = player_id
                           /\ [k \in DOMAIN new.vs |-> new.vs[k].opp] =
                                 [k \in DOMAIN OtherTeamRows(rows, i) |->
                                     PreMatchRating(t, rows[OtherTeamRows(rows, i)[k]].player_id)]

\* a glicko2 match between two players of whom one already had a rating
C10_Witness ==
    \E t \in Sessions :
        /\ Done(t) /\ result[t].kind = "ok"
        /\ \E g \in GameLookup(match_in[t].game_id) : g.rating_strategy = "glicko2"
        /\ \E i, j \in DOMAIN Submitted(t) :
              /\ Submitted(t)[i].team_id # Submitted(t)[j].team_id
              /\ FindProfile(before[t].profiles, Submitted(t)[i].player_id, match_in[t].game_id) # {}


\* a call that ended with a committed match, and the strategy of its game
Succeeded(t) == Done(t) /\ result[t].kind = "ok"
StrategyOf(t) == (CHOOSE g \in GameLookup(match_in[t].game_id) : TRUE).rating_strategy
NewRows(t) == StoredMatch(result[t].n).participants
ProfileNow(t, player_id) == TheProfile(profiles, player_id, match_in[t].game_id)

\* C11 as claimed: every row of a committed glicko2 match holds as
\* rating_info_before the rating its player's profile had before the match and
\* as rating_info_change the profile's rating after the match minus
\* rating_info_before, also when several rows share the Unknown player.
C11_ChangeIsAfterMinusBefore ==
    \A t \in Sessions :
        (Succeeded(t) /\ StrategyOf(t) = "glicko2") =>
            \A i \in DOMAIN NewRows(t) :
                /\ NewRows(t)[i].rating_info_before =
                      PreMatchRating(t, NewRows(t)[i].player_id)
                /\ NewRows(t)[i].rating_info_change =
                      RatingChange(ProfileNow(t, NewRows(t)[i].player_id).rating_info,
                                   NewRows(t)[i].rating_info_before)

\* C12: a committed submission always adds one new match record to the ones
\* stored before, whatever was submitted earlier; its rows take as
\* rating_info_before the rating the earlier matches left in the profiles, and
\* the engine's update is applied on top of that state (every participant's
\* profile differs from the one stored before the call).
C12_NotIdempotent ==
    \A t \in Sessions :
        Succeeded(t) =>
            /\ \A b \in before[t].matches : b.id # result[t].n
            /\ matches = before[t].matches \cup {StoredMatch(result[t].n)}
            /\ \A i \in DOMAIN NewRows(t) :
                  /\ NewRows(t)[i].rating_info_before =
                        PreMatchRating(t, NewRows(t)[i].player_id)
                  /\ ProfileNow(t, NewRows(t)[i].player_id) \notin before[t].profiles

\* the payload of an earlier match is committed a second time, and a row of the
\* second match starts from a rating that is not the default
SamePayload(rows, others) ==
    /\ Len(rows) = Len(others)
    /\ \A i \in DOMAIN rows :
          /\ rows[i].team_id = others[i].team_id
          /\ rows[i].outcome = others[i].outcome
          /\ rows[i].player_id = others[i].player_id

C12_Witness ==
    \E t \in Sessions :
        /\ Succeeded(t)
        /\ \E b \in before[t].matches :
              /\ b.game_id = match_in[t].game_id
              /\ SamePayload(NewRows(t), b.participants)
        /\ \E i \in DOMAIN NewRows(t) :
              NewRows(t)[i].rating_info_before # DEFAULT_RATING_INFO


\* C13: neither the committed table nor what a session sees inside its
\* transaction ever holds two profiles of one (player, game) pair; a match
\* whose rows share a player without profile creates one profile for them.
C13_OneProfilePerPair ==
    \A t \in Sessions :
        /\ \A p, q \in ViewProfiles(t) : SameKey(p, q) => p = q
        /\ Succeeded(t) =>
              Cardinality(profiles) = Cardinality(before[t].profiles) +
                  Cardinality({player_id \in {NewRows(t)[i].player_id : i \in DOMAIN NewRows(t)} :
                      FindProfile(before[t].profiles, player_id, match_in[t].game_id) = {}})

\* two rows of a committed match share a player who had no profile for the game
C13_Witness ==
    \E t \in Sessions :
        /\ Succeeded(t)
        /\ \E i, j \in DOMAIN NewRows(t) :
              /\ i # j
              /\ NewRows(t)[i].player_id = NewRows(t)[j].player_id
              /\ FindProfile(before[t].profiles, NewRows(t)[i].player_id,
                             match_in[t].game_id) = {}


\* C14: when step 5 has run, a participant without profile for the game has a
\* new one with rating 1500, deviation 350, volatility 0.06 and empty stats,
\* and that default is the row's rating_info_before; a participant with a
\* profile has it as it was stored and its rating as rating_info_before; and
\* through the whole call the profiles of other games stay as they were.
StoredFor(profs, player_id, game_id) ==
    {p \in profs : p.player_id = player_id /\ p.game_id = game_id}

C14_DefaultProfileOnFirstMatch ==
    \A t \in Sessions :
        /\ pc[t] = "dispatch" =>
              \A i \in DOMAIN pend[t].match[1].participants :
                  LET row == pend[t].match[1].participants[i]
                      now == StoredFor(ViewProfiles(t), row.player_id, match_in[t].game_id)
                      old == StoredFor(before[t].profiles, row.player_id, match_in[t].game_id)
                  IN  /\ Cardinality(now) = 1
                      /\ \A p \in now :
                            IF old = {}
                            THEN /\ p.rating_info = [rating |-> 1500, rd |-> 350, vol |-> 6]
                                 /\ p.stats = << >>
                                 /\ row.rating_info_before = p.rating_info
                            ELSE /\ p \in old
                                 /\ row.rating_info_before = p.rating_info
        /\ pc[t] \in {"dispatch", "engine_end", "commit", "done"} =>
              \A p \in before[t].profiles :
                  p.game_id # match_in[t].game_id => p \in ViewProfiles(t)

\* step 5 has run for a player who has a profile for the other game only
C14_Witness ==
    \E t \in Sessions :
        /\ pc[t] = "dispatch"
        /\ \E i \in DOMAIN pend[t].match[1].participants :
              LET player_id == pend[t].match[1].participants[i].player_id
              IN  /\ StoredFor(before[t].profiles, player_id, match_in[t].game_id) = {}
                  /\ \E p \in before[t].profiles : p.player_id = player_id


\* C15: a committed match of a "glicko2" game has run the Glicko-2 engine and
\* not the dummy engine (every participant's profile holds a newly computed
\* rating and its stats as before); a committed match of a game with any other
\* strategy has run the dummy engine and not Glicko-2 (the rating is as before
\* and matches_played, 0 when missing, has grown by the number of the player's
\* rows).
PreMatchStats(t, player_id) ==
    IF StoredFor(before[t].profiles, player_id, match_in[t].game_id) = {}
    THEN << >>
    ELSE (CHOOSE p \in StoredFor(before[t].profiles, player_id, match_in[t].game_id) : TRUE).stats

MatchesPlayed(stats) ==
    IF "matches_played" \in DOMAIN stats THEN stats["matches_played"] ELSE 0

RowsOf(rows, player_id) == {i \in DOMAIN rows : rows[i].player_id = player_id}

C15_DispatchOnStrategy ==
    \A t \in Sessions :
        Succeeded(t) =>
            \A i \in DOMAIN NewRows(t) :
                LET player_id == NewRows(t)[i].player_id
                    profile == ProfileNow(t, player_id)
                IN  IF StrategyOf(t) = "glicko2"
                    THEN /\ DOMAIN profile.rating_info = {"rounded"}
                         /\ profile.stats = PreMatchStats(t, player_id)
                    ELSE /\ profile.rating_info = PreMatchRating(t, player_id)
                         /\ DOMAIN profile.stats = {"matches_played"}
                         /\ profile.stats["matches_played"] =
                               MatchesPlayed(PreMatchStats(t, player_id))
                               + Cardinality(RowsOf(NewRows(t), player_id))

\* a match of the dummy-strategy game whose two rows share a player who has
\* played the game before
C15_Witness ==
    \E t \in Sessions :
        /\ Succeeded(t) /\ StrategyOf(t) # "glicko2"
        /\ \E i \in DOMAIN NewRows(t) :
              /\ Cardinality(RowsOf(NewRows(t), NewRows(t)[i].player_id)) = 2
              /\ MatchesPlayed(PreMatchStats(t, NewRows(t)[i].player_id)) > 0


\* C16: the response of create_match to a failed process_new_match: 404 for
\* GameNotFound and PlayerNotFound and 422 for the validation errors, with the
\* error's own message, which names the game id, the missing player id, the
\* participant count, the duplicated ids or the team count; 500 with the fixed
\* text for an engine error, and nothing of the engine error's message.
TeamsSubmitted(t) == {Submitted(t)[i].team_id : i \in DOMAIN Submitted(t)}

C16_ErrorsMappedByKind ==
    \A t \in Sessions :
        pc[t] = "responded" =>
            LET kind == result[t].kind
                detail == response[t].detail
            IN  /\ kind \in {"GameNotFound", "PlayerNotFound"} =>
                      response[t].status = 404 /\ detail.text = kind
                /\ kind \in {"InsufficientParticipants", "DuplicatePlayer",
                             "InsufficientTeams"} =>
                      response[t].status = 422 /\ detail.text = kind
                /\ kind = "GameNotFound" => detail.n = match_in[t].game_id
                /\ kind = "PlayerNotFound" =>
                      /\ detail.ids # {}
                      /\ detail.ids \cap {p.id : p \in players} = {}
                      /\ detail.ids \subseteq {match_in[t].participants[i].player_id :
                                                 i \in DOMAIN match_in[t].participants}
                /\ kind = "InsufficientParticipants" => detail.n = Len(Submitted(t))
                /\ kind = "DuplicatePlayer" =>
                      /\ detail.ids # {}
                      /\ \A id \in detail.ids :
                            Cardinality(RowsOf(match_in[t].participants, id)) > 1
                /\ kind = "InsufficientTeams" => detail.n = Cardinality(TeamsSubmitted(t))
                /\ kind = "RatingEngineError" =>
                      /\ response[t].status = 500
                      /\ detail.text = "Rating calculation failed. Please try again."
                      /\ detail.n = 0 /\ detail.ids = {}
                      /\ detail # Message(result[t])

\* the response to a call in which the engine raised
C16_Witness ==
    \E t \in Sessions :
        /\ pc[t] = "responded" /\ result[t].kind = "RatingEngineError"
        /\ response[t].status = 500


\* The match handed to the glicko2 engine in SpecScores, and what came back.
Scored == match_in[1].participants
EngineReturned == pc[1] = "engine_end"
EngineFailed == pc[1] = "done"
TeamCount == Cardinality({Scored[i].team_id : i \in DOMAIN Scored})
HasResult(i) == Scored[i].outcome.result # << >>
ScoreOf(i) == scores[1][Scored[i].player_id]

\* C17 as claimed: for participants of fewer than 2 distinct teams the score
\* calculation fails with NonCompetitiveMatchError carrying the team count and
\* returns no scores, whatever the outcomes.
C17_SingleTeamFails ==
    (~ (pc[1] = "dispatch") /\ TeamCount < 2) =>
        /\ EngineFailed
        /\ result[1] = Result("NonCompetitiveMatchError", TeamCount, {})
        /\ scores[1] = << >>

\* C18 as claimed: with at least 2 teams and every outcome carrying a result
\* of win, loss or draw, every participant is scored by the binary rule (win
\* 1, loss 0, draw 1/2) whatever rank fields the outcomes also carry.
C18_ResultDrivesBinaryRule ==
    (/\ EngineReturned
     /\ TeamCount >= 2
     /\ \A i \in DOMAIN Scored : Scored[i].outcome.result \in {<<"win">>, <<"loss">>, <<"draw">>}) =>
        \A i \in DOMAIN Scored :
            ScoreOf(i) = CASE Scored[i].outcome.result = <<"win">> -> <<1, 1>>
                           [] Scored[i].outcome.result = <<"loss">> -> <<0, 1>>
                           [] OTHER -> <<1, 2>>

\* C19 as claimed: on the binary path (a win or a loss is present) a result
\* other than win, loss or draw makes the score calculation fail with
\* RatingCalculationError naming the first such participant's player id.
InvalidRows ==
    {i \in DOMAIN Scored :
        HasResult(i) /\ Scored[i].outcome.result \notin {<<"win">>, <<"loss">>, <<"draw">>}}

C19_InvalidResultFails ==
    (/\ ~ (pc[1] = "dispatch")
     /\ TeamCount >= 2
     /\ \E i \in DOMAIN Scored : Scored[i].outcome.result \in {<<"win">>, <<"loss">>}
     /\ InvalidRows # {}) =>
        /\ EngineFailed
        /\ result[1].kind = "RatingCalculationError"
        /\ result[1].ids \subseteq {Scored[i].player_id : i \in InvalidRows}
        /\ result[1].ids # {}

\* C20: on the ranked path (no outcome carries a result) with T >= 2 teams, a
\* participant whose team has rank r scores (T - 1 - (r - 1)) / (T - 1): T is
\* the number of teams, rank 1 gives 1, rank T gives 0, a rank above T gives a
\* negative score.
TeamRank(i) ==
    LET last == CHOOSE j \in DOMAIN Scored :
                    /\ Scored[j].team_id = Scored[i].team_id
                    /\ \A k \in DOMAIN Scored : Scored[k].team_id = Scored[i].team_id => k <= j
    IN  Scored[last].outcome.rank

C20_RankedScoreFormula ==
    (/\ EngineReturned
     /\ TeamCount >= 2
     /\ \A i \in DOMAIN Scored : ~ HasResult(i)) =>
        \A i \in DOMAIN Scored :
            TeamRank(i) # << >> =>
                LET r == TeamRank(i)[1]
                IN  /\ ScoreOf(i)[2] > 0
                    /\ ScoreOf(i)[1] * (TeamCount - 1) =
                          (TeamCount - 1 - (r - 1)) * ScoreOf(i)[2]
                    /\ r = 1 => ScoreOf(i) = <<1, 1>>
                    /\ r = TeamCount => ScoreOf(i) = <<0, 1>>
                    /\ r > TeamCount => ScoreOf(i)[1] < 0

\* three ranked rows in two teams: T is 2, and the rank 4 scores -2
C20_Witness ==
    /\ EngineReturned
    /\ Len(Scored) = 3 /\ TeamCount = 2
    /\ \A i \in DOMAIN Scored : ~ HasResult(i)
    /\ \E i \in DOMAIN Scored : TeamRank(i) = <<4>> /\ ScoreOf(i) = <<0 - 2, 1>>


\* C21 as claimed: on the ranked path (no outcome carries a result, at least 2
\* teams) a participant whose outcome has no rank makes the score calculation
\* fail with RatingCalculationError naming such a participant's player id, and
\* no scores are returned.
UnrankedRows == {i \in DOMAIN Scored : Scored[i].outcome.rank = << >>}

C21_MissingRankFails ==
    (/\ ~ (pc[1] = "dispatch")
     /\ TeamCount >= 2
     /\ \A i \in DOMAIN Scored : ~ HasResult(i)
     /\ UnrankedRows # {}) =>
        /\ EngineFailed
        /\ result[1].kind = "RatingCalculationError"
        /\ result[1].ids # {}
        /\ result[1].ids \subseteq {Scored[i].player_id : i \in UnrankedRows}
        /\ scores[1] = << >>

\* C22: rate called with no opponents returns the rating and the volatility it
\* was given and a deviation strictly above the one it was given, and runs
\* nothing else: the call goes from its first statement to its return, the
\* locals of _compute_new_sigma are never set.
NoOpponents == rating_in.opponents = << >>

C22_NoOpponentsOnlyDeviationGrows ==
    (rate_pc \notin {"idle", "called"} /\ NoOpponents) =>
        /\ rate_pc = "returned"
        /\ rating_out.mu = rating_in.player_rating.mu
        /\ rating_out.sigma = rating_in.player_rating.sigma
        /\ rating_out.phi > rating_in.player_rating.phi
        /\ sigma_iter = NoIteration
        /\ visited = {}

C22_Witness ==
    /\ rate_pc = "returned"
    /\ NoOpponents
    /\ rating_in.player_rating = Glicko2Rating(1400 * Unit, 350 * Unit, 600)
    /\ rating_out.phi > 350 * Unit

\* C25 as claimed: _compute_new_sigma ends for every positive input because
\* its loops are capped.  The first loop counts k up and is never twice in one
\* state; the second has no counter, so a pass that begins with the locals an
\* earlier pass of the same call began with is followed by the same passes
\* again, without end.  Claimed is that no pass begins so.
C25_LoopsEnd == ~ (rate_pc = "illinois" /\ sigma_iter \in visited)

\* C23: a committed glicko2 match of two players on different teams, neither
\* rated in the game before (1500 / 350 / 0.06), one with result win and one
\* with result loss, leaves the winner's profile with a rating above 1500, the
\* loser's with a rating below 1500 and both with a deviation below 350; both
\* rows hold rating_info_before.rating = 1500.
FreshDuel(t) ==
    /\ Succeeded(t)
    /\ StrategyOf(t) = "glicko2"
    /\ Len(NewRows(t)) = 2
    /\ NewRows(t)[1].player_id # NewRows(t)[2].player_id
    /\ NewRows(t)[1].team_id # NewRows(t)[2].team_id
    /\ \A i \in 1..2 : PreMatchRating(t, NewRows(t)[i].player_id) = DEFAULT_RATING_INFO
    /\ {NewRows(t)[1].outcome.result, NewRows(t)[2].outcome.result} = {<<"win">>, <<"loss">>}

RatingAfter(t, i) == RatingValue(ProfileNow(t, NewRows(t)[i].player_id).rating_info)

C23_WinnerUpLoserDown ==
    \A t \in Sessions :
        FreshDuel(t) =>
            \A i \in 1..2 :
                /\ NewRows(t)[i].rating_info_before.rating = 1500
                /\ RatingAfter(t, i).phi < 350 * Unit
                /\ IF NewRows(t)[i].outcome.result = <<"win">>
                   THEN RatingAfter(t, i).mu > 1500 * Unit
                   ELSE RatingAfter(t, i).mu < 1500 * Unit

C23_Witness ==
    \E t \in Sessions :
        /\ FreshDuel(t)
        /\ \E i \in 1..2 : RatingAfter(t, i).mu > 1600 * Unit /\ RatingAfter(t, i).phi > 250 * Unit

\* C24: the score mapping of _calculate_player_scores does not depend on the
\* order of the participants: every permutation of the rows the engine scored
\* gives every player id the score the engine computed.
Reordered(rows, perm) == [i \in DOMAIN rows |-> rows[perm[i]]]

C24_ScoresIgnoreOrder ==
    scores[1] # << >> =>
        \A perm \in Permutations(DOMAIN Scored) :
            CalculatePlayerScores(Reordered(Scored, perm)) = scores[1]

\* ------------------------------------------------------ api/player.py create_player
\* POST /players/ in a session of its own: Player(name), is_anonymous left at the
\* column default, db.add and db.commit.  The insert waits while a session holds
\* an uncommitted row of that name; a committed row of that name is an
\* IntegrityError, answered 409 after rollback.
PlayerNames == {UNKNOWN_PLAYER_NAME, "P1"}

CreatePlayer(name) ==
    /\ \A s \in Sessions : \A p \in pend[s].players : p.name # name
    /\ UNCHANGED rateVars
    /\ IF \E p \in players : p.name = name
       THEN UNCHANGED matchVars
       ELSE /\ players' = players \cup
                    {[id |-> NextPlayerId, name |-> name, is_anonymous |-> FALSE]}
            /\ UNCHANGED <<profiles, matches, pc, match_in, pend, result, new_match, before, scores, response>>

\* Player creations and the submissions of one session, interleaved.
NextPlayers ==
    \/ \E name \in PlayerNames : CreatePlayer(name)
    \/ Submit(1) \/ Step(1) \/ Respond(1) \/ Return(1)
SpecPlayers == Init /\ [][NextPlayers]_vars

\* C26: after any sequence of player creations and match submissions, every
\* row of a committed match that was submitted with player_id = null refers to
\* a player flagged is_anonymous.
C26_UnknownIsAnonymous ==
    \A m \in matches :
        \A i \in DOMAIN m.participants :
            m.participants[i].was_null =>
                \E p \in players : p.id = m.participants[i].player_id /\ p.is_anonymous

\* C27: a list that passes the count, duplicate and team checks but names ids
\* that are not in storage fails with PlayerNotFound for the smallest of the
\* missing ids, wherever the ids stand in the list and however many are missing.
C27_SmallestMissingId ==
    (Done(1) /\ ~ TooFew /\ RepeatedIds = {} /\ ~ OneTeam /\ MissingIds # {}) =>
        /\ result[1].kind = "PlayerNotFound"
        /\ \E m \in MissingIds :
              /\ \A k \in MissingIds : m <= k
              /\ result[1].ids = {m}

\* two ids are missing and the larger one is listed first
C27_Witness ==
    /\ Done(1) /\ result[1].kind = "PlayerNotFound"
    /\ MissingIds = {3, 4}
    /\ Handed[1].player_id = 4
    /\ result[1].ids = {3}

\* The pipeline from the validator on: session 1 stands before step 4 with any
\* resolved participant list of up to MaxValidated rows for game 1.
NextValidated ==
    \/ Validate(1) \/ Persist(1) \/ EngineApply(1) \/ EngineEnd(1) \/ EngineRaise(1)
    \/ Commit(1)
SpecValidated == InitValidate /\ [][NextValidated]_vars

\* C28: in a match that passed validation every participant has a participant
\* on another team, so every rating the glicko2 engine writes was computed by
\* rate from a non-empty opponent list (never by the no-opponents branch), and
\* the list has one entry per row of another team: teammates are not in it.
C28_OpponentsAreOtherTeams ==
    /\ \A p \in profiles \cup pend[1].profiles :
          p.rating_info # DEFAULT_RATING_INFO => p.rating_info.rounded.vs # << >>
    /\ (/\ pc[1] \in {"persist", "dispatch", "engine_end", "commit", "done"}
        /\ result[1].kind \in {"none", "ok"}) =>
          \A i \in DOMAIN Handed : OtherTeamRows(Handed, i) # << >>
    /\ Succeeded(1) =>
          \A player_id \in {NewRows(1)[i].player_id : i \in DOMAIN NewRows(1)} :
              \E i \in DOMAIN NewRows(1) :
                  /\ NewRows(1)[i].player_id = player_id
                  /\ Len(ProfileNow(1, player_id).rating_info.rounded.vs) =
                        Cardinality({j \in DOMAIN NewRows(1) :
                                        NewRows(1)[j].team_id # NewRows(1)[i].team_id})

\* a committed match of four rows on two teams, two rows on each
C28_Witness ==
    /\ Succeeded(1) /\ Len(NewRows(1)) = 4
    /\ \A i \in DOMAIN NewRows(1) :
          Cardinality({j \in DOMAIN NewRows(1) :
                          NewRows(1)[j].team_id = NewRows(1)[i].team_id}) = 2

\* C29: when process_new_match dispatches to a rating engine, the session sees
\* a game profile for the (player, game) pair of every row of the flushed
\* match, so no engine fails on a missing profile, and every row of a committed
\* glicko2 match holds a non-null rating_info_change.
C29_ProfilesExistAtDispatch ==
    \A t \in Sessions :
        /\ pc[t] = "dispatch" =>
              \A i \in DOMAIN pend[t].match[1].participants :
                  FindProfile(ViewProfiles(t), pend[t].match[1].participants[i].player_id,
                              pend[t].match[1].game_id) # {}
        /\ result[t].kind # "LookupError"
        /\ (Succeeded(t) /\ StrategyOf(t) = "glicko2") =>
              \A i \in DOMAIN NewRows(t) :
                  /\ NewRows(t)[i].rating_info_change # NullJson
                  /\ ProfileNow(t, NewRows(t)[i].player_id).rating_info # DEFAULT_RATING_INFO

\* a committed glicko2 match with a player whose profile the same call created
C29_Witness ==
    \E t \in Sessions :
        /\ Succeeded(t) /\ StrategyOf(t) = "glicko2"
        /\ \E i \in DOMAIN NewRows(t) :
              /\ FindProfile(before[t].profiles, NewRows(t)[i].player_id,
                             match_in[t].game_id) = {}
              /\ NewRows(t)[i].rating_info_change # NullJson

\* The pipeline over a storage in which player 1 has a profile for the dummy
\* game whose stats bag (free-form JSON; get_player_stats reads wins, losses
\* and draws from it) holds an entry other than matches_played.
SeededStats ==
    {[k \in {"wins"} |-> 1],
     [k \in {"wins", "matches_played"} |-> IF k = "wins" THEN 1 ELSE 2]}

InitDummy ==
    /\ players = InitialPlayers
    /\ profiles \in {{[id |-> 1, player_id |-> 1, game_id |-> 2,
                       rating_info |-> DEFAULT_RATING_INFO, stats |-> stats]} :
                          stats \in SeededStats}
    /\ matches = {}
    /\ pc = [t \in Sessions |-> "idle"]
    /\ match_in = [t \in Sessions |-> NoCall]
    /\ pend = [t \in Sessions |-> NoPending]
    /\ result = [t \in Sessions |-> NoResult]
    /\ new_match = [t \in Sessions |-> 0]
    /\ before = [t \in Sessions |-> NoHistory]
    /\ scores = [t \in Sessions |-> << >>]
    /\ response = [t \in Sessions |-> NoResponse]
    /\ RateNotCalled

NextDummy == Submit(1) \/ Step(1) \/ Respond(1) \/ Return(1)
SpecDummy == InitDummy /\ [][NextDummy]_vars

\* C30: a committed match of a game whose strategy is not "glicko2" leaves the
\* rating_info of every profile as it was (the default for a profile the call
\* created), keeps every entry of every stats bag other than matches_played
\* and adds no other entry, and its rows hold the pre-match rating as
\* rating_info_before and null as rating_info_change.
StatsBefore(t, p) ==
    IF StoredFor(before[t].profiles, p.player_id, p.game_id) = {} THEN EmptyStats
    ELSE (CHOOSE old \in StoredFor(before[t].profiles, p.player_id, p.game_id) : TRUE).stats

C30_DummyChangesOnlyTheCounter ==
    \A t \in Sessions :
        (Succeeded(t) /\ StrategyOf(t) # "glicko2") =>
            /\ \A p \in profiles :
                  /\ \A old \in StoredFor(before[t].profiles, p.player_id, p.game_id) :
                        p.rating_info = old.rating_info
                  /\ StoredFor(before[t].profiles, p.player_id, p.game_id) = {} =>
                        p.rating_info = DEFAULT_RATING_INFO
                  /\ DOMAIN p.stats \ {"matches_played"} =
                        DOMAIN StatsBefore(t, p) \ {"matches_played"}
                  /\ \A k \in DOMAIN p.stats \ {"matches_played"} :
                        p.stats[k] = StatsBefore(t, p)[k]
            /\ \A old \in before[t].profiles :
                  StoredFor(profiles, old.player_id, old.game_id) # {}
            /\ \A i \in DOMAIN NewRows(t) :
                  /\ NewRows(t)[i].rating_info_change = NullJson
                  /\ NewRows(t)[i].rating_info_before =
                        PreMatchRating(t, NewRows(t)[i].player_id)

\* the dummy engine has counted a match for the player whose bag holds wins
C30_Witness ==
    \E t \in Sessions :
        /\ Succeeded(t) /\ StrategyOf(t) # "glicko2"
        /\ \E p \in profiles :
              /\ "wins" \in DOMAIN StatsBefore(t, p)
              /\ p.stats["wins"] = 1
              /\ MatchesPlayed(p.stats) = MatchesPlayed(StatsBefore(t, p)) + 1

====
